---- MODULE Spec2Model ----
(***************************************************************************)
(* Model of the DFRobot IO expansion HAT driver (src/src/lib.rs).          *)
(*                                                                         *)
(* The driver is a single-threaded sequence of blocking SMBus              *)
(* transactions.  The model keeps the device's register file, the bus      *)
(* handle, the lifetime of the DfrIoHat value and the position of the      *)
(* running call; every bus transaction is one step and is recorded, the    *)
(* way a recording double of the bus would, in `trace` (transactions of    *)
(* the call itself) or `dtrace` (transactions of the Drop glue).           *)
(***************************************************************************)
EXTENDS Integers, Sequences, FiniteSets, TLC

(* ------------------------------------------------------------------ *)
(* enum Register                                                        *)
(* ------------------------------------------------------------------ *)
SlaveAddr == 0
PID == 1
VID == 2
PwmCtrl == 3
PwmFreq == 4
PwmDuty0 == 6
PwmDuty1 == 8
PwmDuty2 == 10
PwmDuty3 == 12
AdcCtrl == 14
AdcCh0 == 15
AdcCh1 == 17
AdcCh2 == 19
AdcCh3 == 21
DefPID == 223
DefVID == 16

(* enum Channel *)
Ch0 == 0
Ch1 == 1
Ch2 == 2
Ch3 == 3

(* ------------------------------------------------------------------ *)
(* Bounds and input sets                                                *)
(* ------------------------------------------------------------------ *)
\* number of calls (open, reset, enable_*, set_*, get_*) in one behaviour
MaxOps == 4

Byte == 0..255
NoByte == -1
NoValue == -1

\* bytes the device may answer to an identity read
IdBytes == {0, DefVID, DefPID - 1, DefPID, 255}
\* bytes the device may answer to an ADC block read
AdcBytes == {0, 3, 4, 255}
\* arguments of set_pwm_freq (u16)
FreqInputs == {0, 1, 2, 255, 256, 1000, 1001, 65535}
\* number of significand values of an f32 (2^24)
Mant == 16777216
\* arguments of set_pwm_duty: the f32 value num/den, den a power of two and
\* num below 2^24 in magnitude.  Besides exact fractions: 0.29f32, 0.01f32,
\* the f32 just below 1.0 and the f32 just above 1.0
DutyInputs ==
  {<<0, 1>>, <<1, 4>>, <<1, 2>>, <<1, 1>>, <<3, 2>>, <<-1, 2>>,
   <<9730785, 33554432>>, <<5368709, 536870912>>,
   <<Mant - 1, Mant>>, <<8388609, 8388608>>}
Channels == {Ch0, Ch1, Ch2, Ch3}

\* the device's address space covered by the register map
RegSpace == 0..22

Min(a, b) == IF a < b THEN a ELSE b

(* ------------------------------------------------------------------ *)
(* Pure helpers of the driver                                           *)
(* ------------------------------------------------------------------ *)
\* Channel::all() with two entries exchanged
ChannelAll_Swapped == <<Ch0, Ch2, Ch1, Ch3>>

\* Channel::all()
ChannelAll == <<Ch0, Ch1, Ch2, Ch3>>

\* the match of set_pwm_duty with the last arm naming channel 2's register
DutyReg_Ch3Wrong(ch) ==
  CASE ch = Ch0 -> PwmDuty0
    [] ch = Ch1 -> PwmDuty1
    [] ch = Ch2 -> PwmDuty2
    [] ch = Ch3 -> PwmDuty2

\* duty registers taken as one byte apart
DutyReg_Packed(ch) == PwmDuty0 + ch

\* the match of set_pwm_duty: channel -> duty register
DutyReg(ch) ==
  CASE ch = Ch0 -> PwmDuty0
    [] ch = Ch1 -> PwmDuty1
    [] ch = Ch2 -> PwmDuty2
    [] ch = Ch3 -> PwmDuty3

\* the match of get_adc_value: channel -> value register
AdcReg(ch) ==
  CASE ch = Ch0 -> AdcCh0
    [] ch = Ch1 -> AdcCh1
    [] ch = Ch2 -> AdcCh2
    [] ch = Ch3 -> AdcCh3

\* both arms of enable_pwm / enable_adc writing 0x01
EnableBytes_AlwaysOn(enable) == <<1>>

\* enable_pwm / enable_adc: the byte block written for `enable`
EnableBytes(enable) == IF enable THEN <<1>> ELSE <<0>>

\* the two assert!s of set_pwm_duty
DutyInRange(duty) == duty[1] >= 0 /\ duty[1] <= duty[2]

\* f32 rounding of a product n/den, n >= 0: the number of low bits of n
\* that do not fit the 24-bit significand
F32Shift(n) == CHOOSE sh \in 0..7 :
  /\ n \div (2 ^ sh) < Mant
  /\ \A t \in 0..(sh - 1) : n \div (2 ^ t) >= Mant

\* n rounded to 24 significant bits, ties to even (IEEE 754 default)
F32Round(n) ==
  LET u == 2 ^ F32Shift(n)
      q == n \div u
      r == n % u
  IN  IF 2 * r > u \/ (2 * r = u /\ q % 2 = 1) THEN (q + 1) * u ELSE q * u

\* set_pwm_duty: (duty * 1e2) as u16 -- the f32 product, then truncation
DutyScaled(duty) == F32Round(duty[1] * 100) \div duty[2]

\* the encoding with the second byte carrying the last decimal digit
DutyBytes_Tenths(duty) ==
  LET scaled == DutyScaled(duty) % 65536
  IN  <<scaled % 256, scaled % 10>>

\* set_pwm_duty: [duty as u8, ((duty * 10) % 10) as u8]
DutyBytes(duty) ==
  LET scaled == DutyScaled(duty) % 65536
  IN  <<scaled % 256, (((scaled * 10) % 65536) % 10) % 256>>

\* set_pwm_freq without its second assert!
FreqInRange_NoUpper(freq) == freq >= 1

\* the two assert!s of set_pwm_freq
FreqInRange(freq) == freq >= 1 /\ freq <= 1000

\* the bytes in little-endian order (u16::to_le_bytes)
ToBeBytes_LittleEndian(freq) == <<freq % 256, (freq \div 256) % 256>>

\* u16::to_be_bytes
ToBeBytes(freq) == <<(freq \div 256) % 256, freq % 256>>

\* u16::from_be_bytes
FromBeBytes(b0, b1) == b0 * 256 + b1

\* Vec::with_capacity(count): an empty vector (length 0) with room for count
VecWithCapacity(count) == <<>>

\* smbus_read_block_data(reg, &mut buf): fills the slice it is given, at most
\* its length, with the bytes the device sent
SmbusReadBlock(buf, wire) == SubSeq(wire, 1, Min(Len(buf), Len(wire)))

\* read_bytes(reg, count) on a successful transfer of `wire`
ReadBytes(count, wire) == SmbusReadBlock(VecWithCapacity(count), wire)

\* begin with the vendor-ID comparison left out
IdentityCheck_NoVid(p, v) ==
  IF p # DefPID THEN "DeviceNotDetected" ELSE "Ok"

\* begin: the identity comparisons after both reads
IdentityCheck(p, v) ==
  IF p # DefPID THEN "DeviceNotDetected"
  ELSE IF v # DefVID THEN "SoftVersion"
  ELSE "Ok"

\* one block write: register and bytes
W(reg, bytes) == [reg |-> reg, bytes |-> bytes]

\* reset without its last line, enable_adc(false)
ResetWrites_NoAdc ==
  <<W(PwmCtrl, EnableBytes(FALSE))>>
  \o [i \in 1..Len(ChannelAll) |-> W(DutyReg(ChannelAll[i]), DutyBytes(<<0, 1>>))]

\* reset with the duty loop moved before enable_pwm(false)
ResetWrites_DutyFirst ==
  [i \in 1..Len(ChannelAll) |-> W(DutyReg(ChannelAll[i]), DutyBytes(<<0, 1>>))]
  \o <<W(PwmCtrl, EnableBytes(FALSE))>>
  \o <<W(AdcCtrl, EnableBytes(FALSE))>>

\* reset: enable_pwm(false); set_pwm_duty(ch, 0.0) for ch in all(); enable_adc(false)
ResetWrites ==
  <<W(PwmCtrl, EnableBytes(FALSE))>>
  \o [i \in 1..Len(ChannelAll) |-> W(DutyReg(ChannelAll[i]), DutyBytes(<<0, 1>>))]
  \o <<W(AdcCtrl, EnableBytes(FALSE))>>

\* reset with its results discarded (`let _ =` in place of `?`)
ResetNext_IgnoreErr(ok, k) ==
  IF k = Len(ResetWrites) THEN "Ok" ELSE "continue"

\* reset after its k-th write: `?` returns the error of a failed write,
\* the last write is followed by Ok(()), any other by the next write
ResetNext(ok, k) ==
  IF ~ok THEN "Transport"
  ELSE IF k = Len(ResetWrites) THEN "Ok"
  ELSE "continue"

\* drop that lets reset's error out instead of discarding it
DropResult_Propagates(resetResult, travelling) ==
  IF resetResult # "Ok" THEN resetResult
  ELSE IF travelling = "none" THEN "Dropped" ELSE travelling

\* Drop: `let _ = self.reset();` -- what leaves drop given reset's result and
\* the error (or panic) already travelling to the caller
DropResult(resetResult, travelling) ==
  IF travelling = "none" THEN "Dropped" ELSE travelling

(* ------------------------------------------------------------------ *)
(* The device behind the bus                                            *)
(* ------------------------------------------------------------------ *)
\* a block write that the device acknowledged stores bytes at reg, reg+1, ...
WriteMem(m, reg, bytes) ==
  [a \in DOMAIN m |->
     IF a >= reg /\ a < reg + Len(bytes) THEN bytes[a - reg + 1] ELSE m[a]]

\* a recorded transaction
Txn(kind, reg, data, ok) == [kind |-> kind, reg |-> reg, data |-> data, ok |-> ok]

ZeroMem == [a \in RegSpace |-> 0]

\* register contents the board may hold when a program starts: as left by
\* power-on or by an earlier program
InitMems ==
  { WriteMem(WriteMem(WriteMem(WriteMem(ZeroMem,
        PwmCtrl, <<p>>), AdcCtrl, <<a>>), PwmDuty0, <<d, 0>>), PwmDuty3, <<d, 0>>)
    : p \in {0, 1}, a \in {0, 1}, d \in {0, 50} }

VARIABLES
  mem,      \* device register file
  dev,      \* bus handle: "none" | "opened" | "bound"
  sess,     \* DfrIoHat value: "none" | "constructing" | "live"
  pc,       \* position of the running call
  step,     \* index (0-based) of reset's next write
  caller,   \* who runs reset: "begin" | "api" | "drop"
  pending,  \* error or panic travelling to the caller while Drop runs
  pid,      \* begin's local `pid`
  op,       \* the call in progress or last completed
  arg,      \* its argument
  ret,      \* its result
  retval,   \* value returned by get_adc_value
  adcWire,  \* bytes the device sent for the last block read
  trace,    \* bus transactions of the call
  dtrace,   \* bus transactions of the Drop glue run for this call
  nops      \* number of calls started

vars == <<mem, dev, sess, pc, step, caller, pending, pid, op, arg, ret, retval,
          adcWire, trace, dtrace, nops>>

Init ==
  /\ mem \in InitMems
  /\ dev = "none"
  /\ sess = "none"
  /\ pc = "idle"
  /\ step = 0
  /\ caller = "none"
  /\ pending = "none"
  /\ pid = NoByte
  /\ op = "none"
  /\ arg = <<>>
  /\ ret = "none"
  /\ retval = NoValue
  /\ adcWire = <<>>
  /\ trace = <<>>
  /\ dtrace = <<>>
  /\ nops = 0

\* a call starts: its records are fresh
StartCall(name, a) ==
  /\ nops < MaxOps
  /\ nops' = nops + 1
  /\ op' = name
  /\ arg' = a
  /\ dtrace' = <<>>

\* the call reads no ADC value
NoRead == retval' = NoValue /\ adcWire' = <<>>

\* the DfrIoHat value goes out of scope while `e` travels to the caller:
\* Drop::drop runs reset
EnterDrop(e) ==
  /\ pc' = "reset"
  /\ caller' = "drop"
  /\ step' = 0
  /\ pending' = e
  /\ ret' = "none"

(* ------------------------------------------------------------------ *)
(* open                                                                 *)
(* ------------------------------------------------------------------ *)
\* open: I2c::from_path
Open ==
  /\ pc = "idle" /\ sess = "none"
  /\ StartCall("open", <<>>)
  /\ NoRead
  /\ trace' = <<>>
  /\ \E ok \in BOOLEAN :
       IF ok
       THEN /\ dev' = "opened" /\ pc' = "bind" /\ ret' = "none"
       ELSE /\ dev' = "none" /\ pc' = "idle" /\ ret' = "Transport"
  /\ caller' = "none" /\ pending' = "none"
  /\ UNCHANGED <<mem, sess, step, pid>>

\* open: smbus_set_slave_address, then the DfrIoHat value is built
OpenBind ==
  /\ pc = "bind"
  /\ \E ok \in BOOLEAN :
       IF ok
       THEN /\ dev' = "bound" /\ sess' = "constructing" /\ pc' = "read_pid"
            /\ ret' = "none"
       ELSE /\ dev' = "none" /\ sess' = sess /\ pc' = "idle"
            /\ ret' = "Transport"
  /\ UNCHANGED <<mem, step, caller, pending, pid, op, arg, retval, adcWire,
                 trace, dtrace, nops>>

\* begin: let pid = self.read_byte(Register::PID)?
BeginReadPID ==
  /\ pc = "read_pid"
  /\ \E ok \in BOOLEAN, b \in IdBytes :
       /\ trace' = Append(trace, Txn("read_byte", PID, IF ok THEN <<b>> ELSE <<>>, ok))
       /\ IF ok
          THEN /\ pid' = b /\ pc' = "read_vid"
               /\ UNCHANGED <<caller, step, pending, ret>>
          ELSE /\ pid' = NoByte /\ EnterDrop("Transport")
  /\ UNCHANGED <<mem, dev, sess, op, arg, retval, adcWire, dtrace, nops>>

\* begin: let vid = self.read_byte(Register::VID)?, then the two comparisons
BeginReadVID ==
  /\ pc = "read_vid"
  /\ \E ok \in BOOLEAN, b \in IdBytes :
       /\ trace' = Append(trace, Txn("read_byte", VID, IF ok THEN <<b>> ELSE <<>>, ok))
       /\ IF ~ok
          THEN EnterDrop("Transport")
          ELSE IF IdentityCheck(pid, b) # "Ok"
          THEN EnterDrop(IdentityCheck(pid, b))
          ELSE /\ pc' = "reset" /\ caller' = "begin" /\ step' = 0
               /\ UNCHANGED <<pending, ret>>
  /\ pid' = NoByte
  /\ UNCHANGED <<mem, dev, sess, op, arg, retval, adcWire, dtrace, nops>>

(* ------------------------------------------------------------------ *)
(* reset, as run by begin, by the caller and by Drop                    *)
(* ------------------------------------------------------------------ *)
\* reset returned r to its caller
ResetReturn(r) ==
  CASE caller = "begin" ->
         IF r = "Ok"
         THEN /\ sess' = "live" /\ pc' = "idle" /\ ret' = "Ok"
              /\ UNCHANGED <<dev, caller, step, pending>>
         ELSE /\ EnterDrop(r)
              /\ UNCHANGED <<dev, sess>>
    [] caller = "api" ->
         /\ pc' = "idle" /\ ret' = r
         /\ UNCHANGED <<dev, sess, caller, step, pending>>
    [] caller = "drop" ->
         /\ pc' = "idle" /\ sess' = "none" /\ dev' = "none"
         /\ ret' = DropResult(r, pending)
         /\ UNCHANGED <<caller, step, pending>>

\* one write of reset
ResetStep ==
  /\ pc = "reset"
  /\ \E ok \in BOOLEAN :
       LET w == ResetWrites[step + 1]
           t == Txn("write_block", w.reg, w.bytes, ok)
       IN  /\ IF caller = "drop"
              THEN /\ dtrace' = Append(dtrace, t) /\ trace' = trace
              ELSE /\ trace' = Append(trace, t) /\ dtrace' = dtrace
           /\ mem' = IF ok THEN WriteMem(mem, w.reg, w.bytes) ELSE mem
           /\ IF ResetNext(ok, step + 1) = "continue"
              THEN /\ step' = step + 1
                   /\ UNCHANGED <<dev, sess, pc, caller, pending, ret>>
              ELSE ResetReturn(ResetNext(ok, step + 1))
  /\ UNCHANGED <<pid, op, arg, retval, adcWire, nops>>

\* the caller invokes reset()
Reset ==
  /\ pc = "idle" /\ sess = "live"
  /\ StartCall("reset", <<>>)
  /\ NoRead
  /\ trace' = <<>>
  /\ pc' = "reset" /\ caller' = "api" /\ step' = 0 /\ ret' = "none"
  /\ pending' = "none"
  /\ UNCHANGED <<mem, dev, sess, pid>>

\* the session's owner lets it go
Drop ==
  /\ pc = "idle" /\ sess = "live"
  /\ op' = "drop" /\ arg' = <<>> /\ retval' = NoValue /\ adcWire' = <<>>
  /\ trace' = <<>> /\ dtrace' = <<>>
  /\ EnterDrop("none")
  /\ UNCHANGED <<mem, dev, sess, pid, nops>>

(* ------------------------------------------------------------------ *)
(* single-transaction operations                                        *)
(* ------------------------------------------------------------------ *)
\* write_bytes that tries the transfer a second time when the first fails
WriteOp_Retry(reg, bytes) ==
  \E ok1 \in BOOLEAN, ok2 \in BOOLEAN :
    /\ trace' = IF ok1 THEN <<Txn("write_block", reg, bytes, TRUE)>>
                 ELSE <<Txn("write_block", reg, bytes, FALSE),
                        Txn("write_block", reg, bytes, ok2)>>
    /\ NoRead
    /\ mem' = IF ok1 \/ ok2 THEN WriteMem(mem, reg, bytes) ELSE mem
    /\ ret' = IF ok1 \/ ok2 THEN "Ok" ELSE "Transport"
    /\ caller' = "none" /\ pending' = "none"
    /\ UNCHANGED <<dev, sess, pc, step, pid>>

\* write_bytes(reg, bytes)? ; Ok(())
WriteOp(reg, bytes) ==
  \E ok \in BOOLEAN :
    /\ trace' = <<Txn("write_block", reg, bytes, ok)>>
    /\ NoRead
    /\ mem' = IF ok THEN WriteMem(mem, reg, bytes) ELSE mem
    /\ ret' = IF ok THEN "Ok" ELSE "Transport"
    /\ caller' = "none" /\ pending' = "none"
    /\ UNCHANGED <<dev, sess, pc, step, pid>>

\* a panic unwinds through the owner of the session: Drop runs
Panic ==
  /\ trace' = <<>>
  /\ NoRead
  /\ EnterDrop("Panic")
  /\ UNCHANGED <<mem, dev, sess, pid>>

EnablePwm(enable) ==
  /\ pc = "idle" /\ sess = "live"
  /\ StartCall("enable_pwm", <<enable>>)
  /\ WriteOp(PwmCtrl, EnableBytes(enable))

EnableAdc(enable) ==
  /\ pc = "idle" /\ sess = "live"
  /\ StartCall("enable_adc", <<enable>>)
  /\ WriteOp(AdcCtrl, EnableBytes(enable))

SetPwmDuty(channel, duty) ==
  /\ pc = "idle" /\ sess = "live"
  /\ StartCall("set_pwm_duty", <<channel, duty>>)
  /\ IF DutyInRange(duty)
     THEN WriteOp(DutyReg(channel), DutyBytes(duty))
     ELSE Panic

SetPwmFreq(freq) ==
  /\ pc = "idle" /\ sess = "live"
  /\ StartCall("set_pwm_freq", <<freq>>)
  /\ IF FreqInRange(freq)
     THEN WriteOp(PwmFreq, ToBeBytes(freq))
     ELSE Panic

\* get_adc_value: read_bytes(reg, 2)?, then bytes[0], bytes[1]
GetAdcValue(channel) ==
  /\ pc = "idle" /\ sess = "live"
  /\ StartCall("get_adc_value", <<channel>>)
  /\ \E ok \in BOOLEAN, b0 \in AdcBytes, b1 \in AdcBytes :
       LET wire  == <<b0, b1>>
           bytes == ReadBytes(2, wire)
       IN  /\ trace' = <<Txn("read_block", AdcReg(channel),
                             IF ok THEN bytes ELSE <<>>, ok)>>
           /\ IF ~ok
              THEN /\ adcWire' = <<>> /\ retval' = NoValue
                   /\ ret' = "Transport"
                   /\ caller' = "none" /\ pending' = "none"
                   /\ UNCHANGED <<pc, step>>
              ELSE IF Len(bytes) < 2
              THEN \* index out of bounds
                   /\ adcWire' = wire /\ retval' = NoValue
                   /\ EnterDrop("Panic")
              ELSE /\ adcWire' = wire
                   /\ retval' = FromBeBytes(bytes[1], bytes[2])
                   /\ ret' = "Ok"
                   /\ caller' = "none" /\ pending' = "none"
                   /\ UNCHANGED <<pc, step>>
  /\ UNCHANGED <<mem, dev, sess, pid>>

Next ==
  \/ Open
  \/ OpenBind
  \/ BeginReadPID
  \/ BeginReadVID
  \/ ResetStep
  \/ Reset
  \/ Drop
  \/ \E e \in BOOLEAN : EnablePwm(e)
  \/ \E e \in BOOLEAN : EnableAdc(e)
  \/ \E c \in Channels, d \in DutyInputs : SetPwmDuty(c, d)
  \/ \E f \in FreqInputs : SetPwmFreq(f)
  \/ \E c \in Channels : GetAdcValue(c)

Spec == Init /\ [][Next]_vars

(* ------------------------------------------------------------------ *)
(* Properties                                                           *)
(* ------------------------------------------------------------------ *)
IsWrite(t) == t.kind = "write_block"
AllOk(s) == \A i \in 1..Len(s) : s[i].ok
\* the call has returned (or its panic has left the owner's scope)
Returned == pc = "idle" /\ op # "none"
\* the product-ID read of open returned b
PidRead(b) ==
  Len(trace) >= 1 /\ trace[1].kind = "read_byte" /\ trace[1].reg = PID
  /\ trace[1].ok /\ trace[1].data = <<b>>
\* the vendor-ID read of open returned b
VidRead(b) ==
  Len(trace) >= 2 /\ trace[2].kind = "read_byte" /\ trace[2].reg = VID
  /\ trace[2].ok /\ trace[2].data = <<b>>
\* some write was issued during the call, by the call or by the Drop glue
SomeWrite ==
  \/ \E i \in 1..Len(trace) : IsWrite(trace[i])
  \/ \E i \in 1..Len(dtrace) : IsWrite(dtrace[i])

\* C1: during open, a register write is issued on the bus only after the
\* product-ID read returned 0xDF and the vendor-ID read returned 0x10; a
\* failed open attempt, the release of its handle included, writes nothing.
C1_NoWriteUnverified ==
  op = "open" =>
    /\ \A i \in 1..Len(trace) :
         IsWrite(trace[i]) => (i > 2 /\ PidRead(DefPID) /\ VidRead(DefVID))
    /\ (dtrace # <<>> => (PidRead(DefPID) /\ VidRead(DefVID)))
    /\ (pending \in {"DeviceNotDetected", "SoftVersion"} => ~SomeWrite)

\* C2: a product-ID byte other than 0xDF makes open fail with
\* DeviceNotDetected whatever happens later; product-ID 0xDF with a
\* vendor-ID byte other than 0x10 makes it fail with SoftVersion; no
\* session is returned.
C2_IdentityErrors ==
  (op = "open" /\ Returned) =>
    /\ (\E b \in IdBytes \ {DefPID} : PidRead(b)) =>
          (ret = "DeviceNotDetected" /\ sess = "none")
    /\ (PidRead(DefPID) /\ \E b \in IdBytes \ {DefVID} : VidRead(b)) =>
          (ret = "SoftVersion" /\ sess = "none")

\* C3: open returns a session only if the bus was opened and bound, the
\* product-ID read returned 0xDF, the vendor-ID read returned 0x10 and the
\* six writes of reset succeeded; otherwise it returns an error and no
\* session, and a failed write of the construction-time reset is returned
\* as a transport error.
C3_OpenGates ==
  (op = "open" /\ Returned) =>
    /\ ret \in {"Ok", "Transport", "DeviceNotDetected", "SoftVersion"}
    /\ (ret = "Ok") = (sess = "live")
    /\ (ret # "Ok") => (sess = "none" /\ dev = "none")
    /\ (ret = "Ok") =>
          /\ dev = "bound"
          /\ PidRead(DefPID) /\ VidRead(DefVID)
          /\ Len(trace) = 8 /\ AllOk(trace)
          /\ \A i \in 3..8 : IsWrite(trace[i])
    /\ (\E i \in 1..Len(trace) : ~trace[i].ok) => ret = "Transport"

C3_Witness == op = "open" /\ Returned /\ ret = "Ok" /\ sess = "live"

\* both control registers disabled and every duty register [0,0]
Quiescent(m) ==
  /\ m[PwmCtrl] = 0
  /\ m[AdcCtrl] = 0
  /\ \A r \in {PwmDuty0, PwmDuty1, PwmDuty2, PwmDuty3} : m[r] = 0 /\ m[r + 1] = 0

\* C4: whenever reset() returns success, explicitly or as the last step of a
\* successful open, PWM control is 0x00, ADC control is 0x00 and the four
\* duty registers hold [0,0], whatever preceded it.
C4_QuiescentAfterReset ==
  (Returned /\ op \in {"reset", "open"} /\ ret = "Ok") => Quiescent(mem)

C4_Witness == Returned /\ op = "reset" /\ ret = "Ok" /\ nops >= 3

\* the transactions of the reset that is running or has run last
ResetRun ==
  IF caller = "drop" THEN dtrace
  ELSE IF op = "open" THEN SubSeq(trace, 3, Len(trace))
  ELSE trace

\* the six writes the reset contract names
ExpectedReset ==
  << W(3, <<0>>), W(6, <<0, 0>>), W(8, <<0, 0>>), W(10, <<0, 0>>),
     W(12, <<0, 0>>), W(14, <<0>>) >>

\* C5: a reset that meets no transport error issues exactly six writes, 0x00
\* to 0x03, [0,0] to 0x06, 0x08, 0x0A, 0x0C, then 0x00 to 0x0E, in this order;
\* from the completion of its first write until it returns, the PWM control
\* register is 0x00.
C5_ResetOrder ==
  /\ (caller # "none" /\ pc = "idle" /\ AllOk(ResetRun)) =>
       ResetRun = [i \in 1..6 |->
                     Txn("write_block", ExpectedReset[i].reg, ExpectedReset[i].bytes, TRUE)]
  /\ (pc = "reset" /\ step >= 1) => mem[PwmCtrl] = 0

C5_Witness == caller = "api" /\ pc = "idle" /\ ret = "Ok" /\ Len(trace) = 6

\* the Drop glue has run to its end
DropDone == pc = "idle" /\ caller = "drop"

\* C6: the writes of a teardown are, in order and byte for byte, the writes
\* reset() issues; a failed write ends the teardown without any error
\* reaching the surrounding scope, and the bus handle is released.
C6_TeardownIsReset ==
  DropDone =>
    /\ Len(dtrace) \in 1..Len(ResetWrites)
    /\ \A i \in 1..Len(dtrace) :
         dtrace[i] = Txn("write_block", ResetWrites[i].reg, ResetWrites[i].bytes,
                         dtrace[i].ok)
    /\ \A i \in 1..(Len(dtrace) - 1) : dtrace[i].ok
    /\ AllOk(dtrace) => Len(dtrace) = Len(ResetWrites)
    /\ sess = "none" /\ dev = "none"
    /\ ret = (IF op = "drop" THEN "Dropped" ELSE pending)

C6_Witness == DropDone /\ op = "drop" /\ ~AllOk(dtrace) /\ ret = "Dropped"

\* C7: when a successfully opened session ends, after any operations
\* (failed or faulted ones included), the teardown reset is attempted, and
\* if none of its writes fails the board is left with PWM control 0x00, ADC
\* control 0x00 and all duty registers [0,0].
C7_SafeAtSessionEnd ==
  (Returned /\ op # "open" /\ sess = "none") =>
    /\ DropDone
    /\ dtrace # <<>>
    /\ AllOk(dtrace) => Quiescent(mem)

C7_Witness ==
  DropDone /\ op = "set_pwm_duty" /\ ret = "Panic" /\ Len(dtrace) = 6 /\ AllOk(dtrace)

\* C8: for every channel and every two bytes [b0, b1] the device returns,
\* get_adc_value returns 256*b0 + b1 without faulting, the read buffer
\* holding the two bytes.
C8_AdcDecode ==
  (op = "get_adc_value" /\ adcWire # <<>>) =>
    /\ pending # "Panic"
    /\ ret = "Ok"
    /\ retval = 256 * adcWire[1] + adcWire[2]
    /\ trace[1].data = adcWire

\* C10: for every freq in 1..1000, set_pwm_freq(freq) writes exactly the
\* block [freq div 256, freq mod 256] to register 0x04.
C10_FreqEncoding ==
  (op = "set_pwm_freq" /\ arg[1] >= 1 /\ arg[1] <= 1000) =>
    /\ trace = <<Txn("write_block", 4, <<arg[1] \div 256, arg[1] % 256>>, ret = "Ok")>>
    /\ dtrace = <<>>
    /\ ret = "Ok" => (mem[4] = arg[1] \div 256 /\ mem[5] = arg[1] % 256)
    /\ arg[1] = 2 => trace[1].data = <<0, 2>>
    /\ arg[1] = 1000 => trace[1].data = <<3, 232>>

C10_Witness ==
  op = "set_pwm_freq" /\ arg = <<1000>> /\ ret = "Ok" /\ mem[4] = 3 /\ mem[5] = 232

\* every u16 the range check lets through, and its two neighbours
AllFreqs == 0..1001

\* the program's first open
FirstOpen == nops = 0 /\ Open

\* one set_pwm_freq call, right after open, with any frequency
FreqSweep == nops = 1 /\ \E f \in AllFreqs : SetPwmFreq(f)

NextFreq ==
  \/ FirstOpen
  \/ OpenBind
  \/ BeginReadPID
  \/ BeginReadVID
  \/ ResetStep
  \/ Drop
  \/ FreqSweep

SpecFreq == Init /\ [][NextFreq]_vars

(* ------------------------------------------------------------------ *)
(* set_pwm_duty over the f32 values around the hundredths               *)
(* ------------------------------------------------------------------ *)
\* the f32 nearest to k/100 and its two neighbours, k in 50..99, together
\* with the inputs of the main specification
AllDuties ==
  {<<(k * Mant + 50) \div 100 + j, Mant>> : k \in 50..99, j \in {-1, 0, 1}}
  \cup DutyInputs

\* one set_pwm_duty call, right after open
DutySweep == nops = 1 /\ \E c \in Channels, d \in AllDuties : SetPwmDuty(c, d)

NextDuty ==
  \/ FirstOpen
  \/ OpenBind
  \/ BeginReadPID
  \/ BeginReadVID
  \/ ResetStep
  \/ Drop
  \/ DutySweep

SpecDuty == Init /\ [][NextDuty]_vars

\* an in-range set_pwm_duty call has issued its write
DutyWritten ==
  op = "set_pwm_duty" /\ DutyInRange(arg[2]) /\ Len(trace) = 1

\* C11 (as claimed): for every duty in [0.0, 1.0] the block written is
\* [floor(duty*100) mod 256, 0].
C11_DutyEncodingExact ==
  (op = "set_pwm_duty" /\ DutyInRange(arg[2])) =>
    /\ Len(trace) = 1 /\ IsWrite(trace[1])
    /\ trace[1].reg = DutyReg(arg[1])
    /\ trace[1].data = <<((arg[2][1] * 100) \div arg[2][2]) % 256, 0>>

\* C11 (amended): the first byte is the integer part of duty*100 as rounded
\* to f32: floor(duty*100), or the next integer when the exact product lies
\* within half an f32 unit in the last place below it; it is in 0..100, the
\* second byte is 0, and scaled*10 stays below 2^16.
C11_DutyEncodingF32 ==
  (op = "set_pwm_duty" /\ DutyInRange(arg[2])) =>
    LET num == arg[2][1]
        den == arg[2][2]
        fl  == (num * 100) \div den
        rem == (num * 100) % den
        ulp == 2 ^ F32Shift(num * 100)
        b   == IF 2 * (den - rem) <= ulp THEN fl + 1 ELSE fl
    IN  /\ Len(trace) = 1 /\ IsWrite(trace[1])
        /\ trace[1].reg = DutyReg(arg[1])
        /\ trace[1].data = <<b, 0>>
        /\ b \in 0..100
        /\ b * 10 < 65536
        /\ (num * 100 < Mant) => b = fl
        /\ (arg[2] = <<1, 2>>) => trace[1].data = <<50, 0>>
        /\ (arg[2] = <<1, 1>>) => trace[1].data = <<100, 0>>
        /\ (arg[2] = <<0, 1>>) => trace[1].data = <<0, 0>>

\* 0.29f32 was written as [29, 0] although 0.29f32 * 100 < 29
C11_Witness ==
  /\ op = "set_pwm_duty" /\ arg[2] = <<9730785, 33554432>>
  /\ ret = "Ok" /\ trace[1].data = <<29, 0>>
  /\ mem[DutyReg(arg[1])] = 29

\* C12: set_pwm_freq with freq < 1 or freq > 1000 and set_pwm_duty with
\* duty < 0.0 or duty > 1.0 fault before the call issues any bus write: the
\* call writes nothing, clamped or otherwise, to the frequency register or
\* to a duty register.
C12_OutOfRangeFaults ==
  LET badFreq == op = "set_pwm_freq" /\ (arg[1] < 1 \/ arg[1] > 1000)
      badDuty == op = "set_pwm_duty" /\ (arg[2][1] < 0 \/ arg[2][1] > arg[2][2])
  IN  (badFreq \/ badDuty) =>
        /\ trace = <<>>
        /\ pending = "Panic"
        /\ ret \in {"none", "Panic"}
        /\ Returned => ret = "Panic"
        /\ \A i \in 1..Len(dtrace) : dtrace[i].reg # PwmFreq

C12_Witness ==
  op = "set_pwm_freq" /\ arg = <<1001>> /\ Returned /\ ret = "Panic" /\ trace = <<>>

\* the register an operation addresses
TargetReg ==
  CASE op = "enable_pwm" -> 3
    [] op = "enable_adc" -> 14
    [] op = "set_pwm_freq" -> 4
    [] op = "set_pwm_duty" -> 6 + 2 * arg[1]
    [] op = "get_adc_value" -> 15 + 2 * arg[1]

\* C13: each call of enable_pwm, enable_adc, set_pwm_freq (in range),
\* set_pwm_duty (in range) and get_adc_value issues exactly one bus
\* transaction, a block write (a block read for get_adc_value); when it
\* fails the call returns the transport error after that single attempt,
\* with no other transaction.
C13_OneTransaction ==
  LET single ==
        \/ op \in {"enable_pwm", "enable_adc", "get_adc_value"}
        \/ op = "set_pwm_freq" /\ arg[1] >= 1 /\ arg[1] <= 1000
        \/ op = "set_pwm_duty" /\ arg[2][1] >= 0 /\ arg[2][1] <= arg[2][2]
  IN  single =>
        /\ Len(trace) = 1
        /\ trace[1].kind = (IF op = "get_adc_value" THEN "read_block" ELSE "write_block")
        /\ trace[1].reg = TargetReg
        /\ ~trace[1].ok =>
             (ret = "Transport" /\ pc = "idle" /\ dtrace = <<>> /\ sess = "live")
        /\ (trace[1].ok /\ op # "get_adc_value") =>
             (ret = "Ok" /\ pc = "idle" /\ dtrace = <<>>)

C13_Witness ==
  /\ op = "set_pwm_freq" /\ arg = <<2>> /\ ret = "Transport"
  /\ Len(trace) = 1 /\ ~trace[1].ok /\ pc = "idle"

\* C14: Channel::all() is the four channel identifiers 0, 1, 2, 3, each once,
\* in that order, on every call: every run of reset's loop addresses the
\* duty registers of channels 0, 1, 2, 3 in this order.
C14_ChannelAll ==
  /\ ChannelAll = <<0, 1, 2, 3>>
  /\ Len(ChannelAll) = 4
  /\ \A i, j \in 1..Len(ChannelAll) : ChannelAll[i] = ChannelAll[j] => i = j
  /\ caller # "none" =>
       \A i \in 2..Min(Len(ResetRun), 5) : ResetRun[i].reg = 6 + 2 * (i - 2)

C14_Witness ==
  /\ DropDone /\ op = "drop" /\ Len(dtrace) = 6 /\ AllOk(dtrace)
  /\ \A i \in 1..4 : dtrace[i + 1].reg = DutyReg(ChannelAll[i])

\* C15: in open the product-ID byte is compared with 0xDF before the
\* vendor-ID register is read; after a product-ID byte other than 0xDF open
\* performs no vendor-ID read and no other bus transaction.
C15_GateOrdering ==
  (op = "open" /\ \E b \in IdBytes \ {DefPID} : PidRead(b)) =>
    (Len(trace) = 1 /\ dtrace = <<>>)

\* the byte ranges of the writable registers: offset and length
RegExtents ==
  {<<3, 1>>, <<4, 2>>, <<6, 2>>, <<8, 2>>, <<10, 2>>, <<12, 2>>, <<14, 1>>}

\* every recorded write covers exactly the bytes of one register
ExtentsOk ==
  /\ \A i \in 1..Len(trace) :
       IsWrite(trace[i]) => <<trace[i].reg, Len(trace[i].data)>> \in RegExtents
  /\ \A i \in 1..Len(dtrace) :
       IsWrite(dtrace[i]) => <<dtrace[i].reg, Len(dtrace[i].data)>> \in RegExtents

\* a call of one of the four write operations changes, at most, the bytes
\* of its own register, and stores there what it wrote
FrameStep ==
  (nops' = nops + 1
   /\ op' \in {"set_pwm_duty", "set_pwm_freq", "enable_pwm", "enable_adc"}) =>
    LET own == CASE op' = "set_pwm_duty" -> {6 + 2 * arg'[1], 6 + 2 * arg'[1] + 1}
                 [] op' = "set_pwm_freq" -> {4, 5}
                 [] op' = "enable_pwm" -> {3}
                 [] op' = "enable_adc" -> {14}
    IN  /\ \A a \in RegSpace \ own : mem'[a] = mem[a]
        /\ ret' = "Ok" =>
             \A k \in 1..Len(trace'[1].data) :
               mem'[trace'[1].reg + k - 1] = trace'[1].data[k]
        /\ ret' # "Ok" => mem' = mem

\* C16: set_pwm_duty(c, d) writes only the two bytes at 0x06 + 2*c,
\* set_pwm_freq only the two bytes at 0x04, enable_pwm only the byte at 0x03
\* and enable_adc only the byte at 0x0E, everything else staying unchanged;
\* no write of any operation overlaps another register's bytes.
C16_WriteFrame == []ExtentsOk /\ [][FrameStep]_vars

\* channel 1 was set to 0.5 and channel 0 still holds the 0.25 set before
C16_Witness ==
  /\ op = "set_pwm_duty" /\ arg = <<Ch1, <<1, 2>>>> /\ ret = "Ok"
  /\ mem[8] = 50 /\ mem[9] = 0
  /\ mem[6] = 25 /\ mem[7] = 0

\* a failed transaction is the last one of its sequence
FailureIsLast(t) == \A i \in 1..(Len(t) - 1) : t[i].ok

\* the writes of every reset run are the first writes of the six-write
\* sequence; a run goes on only while every write succeeded
PrefixOfReset ==
  /\ FailureIsLast(trace) /\ FailureIsLast(dtrace)
  /\ caller # "none" =>
       /\ Len(ResetRun) <= 6
       /\ \A i \in 1..Len(ResetRun) :
            /\ IsWrite(ResetRun[i])
            /\ ResetRun[i].reg = ExpectedReset[i].reg
            /\ ResetRun[i].data = ExpectedReset[i].bytes
       /\ pc = "reset" => (AllOk(ResetRun) /\ step = Len(ResetRun))
       /\ (pc = "idle" /\ caller = "api" /\ ~AllOk(trace)) => ret = "Transport"

\* a teardown whose first write fails ends there with the registers as
\* they were
FirstWriteFails ==
  (pc = "reset" /\ caller = "drop" /\ step = 0
   /\ Len(dtrace') = 1 /\ ~dtrace'[1].ok) =>
    (mem' = mem /\ pc' = "idle" /\ sess' = "none")

\* C17: if the k-th write of reset fails, reset returns that error and
\* issues none of the later writes, so the writes of any reset (explicit, at
\* construction, at teardown) are a prefix of PWM-off, duty0..duty3 = [0,0],
\* ADC-off; a teardown whose PWM-disable write fails leaves the duty
\* registers and the ADC control register as they were.
C17_ResetStopsAtFailure == []PrefixOfReset /\ [][FirstWriteFails]_vars

\* the teardown's PWM-disable write failed: PWM still enabled, duty kept
C17_Witness ==
  /\ DropDone /\ op = "drop" /\ Len(dtrace) = 1 /\ ~dtrace[1].ok
  /\ mem[3] = 1 /\ mem[6] = 50

\* a recorded write of a nonzero byte to control register r
EnablingWrite(t, r) == IsWrite(t) /\ t.reg = r /\ t.data # <<0>>

\* nonzero control bytes are written by enable_pwm(true) and
\* enable_adc(true) alone, never by the Drop glue
OnlyEnableEnables ==
  /\ \A i \in 1..Len(trace) :
       /\ EnablingWrite(trace[i], 3) =>
            (op = "enable_pwm" /\ arg = <<TRUE>> /\ trace[i].data = <<1>>)
       /\ EnablingWrite(trace[i], 14) =>
            (op = "enable_adc" /\ arg = <<TRUE>> /\ trace[i].data = <<1>>)
  /\ \A i \in 1..Len(dtrace) :
       ~EnablingWrite(dtrace[i], 3) /\ ~EnablingWrite(dtrace[i], 14)

\* a control register becomes nonzero only in a successful enable_*(true)
EnabledOnlyByEnable ==
  /\ (mem[3] = 0 /\ mem'[3] # 0) =>
       (op' = "enable_pwm" /\ arg' = <<TRUE>> /\ ret' = "Ok" /\ mem'[3] = 1)
  /\ (mem[14] = 0 /\ mem'[14] # 0) =>
       (op' = "enable_adc" /\ arg' = <<TRUE>> /\ ret' = "Ok" /\ mem'[14] = 1)

\* C18: the only operation that writes a nonzero byte to the PWM control
\* register is enable_pwm(true), and to the ADC control register
\* enable_adc(true); open, reset, teardown, set_pwm_freq, set_pwm_duty and
\* get_adc_value never do, so a control register that reset cleared is
\* 0x01 again only after a successful enable of it.
C18_NeverEnablesItself == []OnlyEnableEnables /\ [][EnabledOnlyByEnable]_vars

C18_Witness ==
  /\ op = "enable_pwm" /\ arg = <<TRUE>> /\ ret = "Ok"
  /\ mem[3] = 1 /\ mem[14] = 0

====
